---- MODULE Spec2Model ----
(***************************************************************************)
(* Model of azure-login's retry engine (internal/retry/retry.go): the      *)
(* failure classifier IsRetryable and the retry driver Config.Do.          *)
(*                                                                         *)
(* An error value is its Unwrap chain: a sequence of layers, outermost     *)
(* first, the last one a leaf.  The nil error is the empty sequence.       *)
(* A duration is a whole number of ticks (time.Duration is an integer),    *)
(* and BackoffMultiplier is the rational MultNum / MultDen.                *)
(***************************************************************************)
EXTENDS Integers, Sequences, FiniteSets, TLC

\* ------------------------------------------------------------------ bounds
\* Largest MaxAttempts explored (LoadConfig admits 1..10).
MaxAtt == 4
\* Largest InitialDelay explored, in ticks.
MaxInit == 3
\* Largest MaxDelay explored, in ticks.
MaxMax == 4
\* BackoffMultiplier is MultNum / MultDen with MultNum in MultDen..MaxMultNum.
MultDen == 2
MaxMultNum == 5
\* Longest error chain the classifier specification builds.
MaxDepth == 4
\* The clock of the get-access-token runs goes from 0 to MaxTime minutes.
MaxTime == 8
\* Number of MergeClusterCredentials calls made on one Kubeconfig.
MaxMerges == 3
\* Number of concurrent SaveToken calls, and of different tokens they save.
NWriters == 2
NTokens == 2

\* ------------------------------------------------------------ error values
Nil == <<>>

L(kind) == [k |-> kind, n |-> 0]

E1(leaf) == <<L(leaf)>>

E2(w, leaf) == <<L(w), L(leaf)>>

\* syscall.Errno values
Errnos == {"ECONNRESET", "ECONNREFUSED", "ENETUNREACH", "EHOSTUNREACH",
           "ECONNABORTED", "ETIMEDOUT", "EINTR", "EPERM"}

\* Leaves: errors.New values, the context sentinels, errnos, *net.DNSError
\* (temporary / not found), net's "i/o timeout" error (which answers
\* Is(context.DeadlineExceeded)) and os.ErrDeadlineExceeded.
Leaves == {"plain", "canceled", "deadline", "dnsTemp", "dnsNoHost",
           "ioTimeout", "osDeadline"} \cup Errnos

\* Wrappers: fmt.Errorf("%w"), *url.Error, *net.OpError, *os.SyscallError.
Wrappers == {"wrap", "url", "op", "sys"}

\* The child of the outermost layer (its Unwrap()).
Child(e) == Tail(e)

\* Timeout() of a leaf, for the leaves that have the method.
LeafTimeout(l) == l \in {"deadline", "ioTimeout", "osDeadline", "ETIMEDOUT"}

\* Temporary() of a leaf, for the leaves that have the method.
LeafTemporary(l) == l \in {"deadline", "ioTimeout", "osDeadline", "ETIMEDOUT",
                           "EINTR", "dnsTemp"}

\* Whether the outermost layer of e has a Timeout() bool method.
HasTimeout(e) ==
    /\ e # Nil
    /\ e[1].k \in {"url", "op", "sys", "deadline", "ioTimeout", "osDeadline",
                   "dnsTemp", "dnsNoHost"} \cup Errnos

\* Whether the outermost layer of e has a Temporary() bool method.
HasTemporary(e) ==
    /\ e # Nil
    /\ e[1].k \in {"url", "op", "deadline", "ioTimeout", "osDeadline",
                   "dnsTemp", "dnsNoHost"} \cup Errnos

RECURSIVE Timeout(_)
\* e.Timeout() for an e that has the method.
Timeout(e) ==
    LET c == Child(e) IN
    CASE e[1].k \in {"url", "sys"} -> HasTimeout(c) /\ Timeout(c)
      [] e[1].k = "op" ->
            IF c # Nil /\ c[1].k = "sys"
            THEN HasTimeout(Child(c)) /\ Timeout(Child(c))
            ELSE HasTimeout(c) /\ Timeout(c)
      [] OTHER -> LeafTimeout(e[1].k)

RECURSIVE Temporary(_)
\* e.Temporary() for an e that has the method.
Temporary(e) ==
    LET c == Child(e) IN
    CASE e[1].k = "url" -> HasTemporary(c) /\ Temporary(c)
      [] e[1].k = "op" ->
            IF c # Nil /\ c[1].k = "sys"
            THEN HasTemporary(Child(c)) /\ Temporary(Child(c))
            ELSE HasTemporary(c) /\ Temporary(c)
      [] OTHER -> LeafTemporary(e[1].k)

\* The suffix of e that starts at layer i.
From(e, i) == SubSeq(e, i, Len(e))

\* errors.Is(e, context.Canceled)
IsCanceled(e) == \E i \in 1..Len(e) : e[i].k = "canceled"

\* errors.Is(e, context.DeadlineExceeded)
IsDeadline(e) == \E i \in 1..Len(e) : e[i].k \in {"deadline", "ioTimeout"}

\* errors.Is(e, errno)
IsErrno(e, errno) == \E i \in 1..Len(e) : e[i].k = errno

\* errors.As: the index of the first layer of e whose kind is in kinds, or 0.
AsIndex(e, kinds) ==
    IF \E i \in 1..Len(e) : e[i].k \in kinds
    THEN CHOOSE i \in 1..Len(e) :
            /\ e[i].k \in kinds
            /\ \A j \in 1..(i - 1) : e[j].k \notin kinds
    ELSE 0

\* The kinds that implement net.Error (Error, Timeout and Temporary).
NetErrorKinds == {"url", "op", "deadline", "ioTimeout", "osDeadline",
                  "dnsTemp", "dnsNoHost"} \cup Errnos

\* The retryable errnos with ECONNRESET left out.
RetryableErrnosNoReset == {"ECONNREFUSED", "ENETUNREACH", "EHOSTUNREACH",
                           "ECONNABORTED", "ETIMEDOUT"}

RetryableErrnos == {"ECONNRESET", "ECONNREFUSED", "ENETUNREACH",
                    "EHOSTUNREACH", "ECONNABORTED", "ETIMEDOUT"}

\* The checks that follow the url.Error check, with the net.OpError checks
\* placed before the context check.
AfterUrlCodesFirst(e) ==
    LET o == AsIndex(e, {"op"})
        d == AsIndex(e, {"dnsTemp", "dnsNoHost"})
        g == AsIndex(e, NetErrorKinds)
    IN  IF o > 0 /\ (\/ \E x \in RetryableErrnos : IsErrno(From(e, o + 1), x)
                     \/ Temporary(From(e, o)))
        THEN TRUE
        ELSE IF IsCanceled(e) \/ IsDeadline(e) THEN FALSE
        ELSE IF d > 0 THEN Temporary(From(e, d))
        ELSE IF g > 0 THEN Timeout(From(e, g)) \/ Temporary(From(e, g))
        ELSE FALSE

\* The checks that follow the url.Error check, ending in true for false.
AfterUrlDefaultTrue(e) ==
    LET o == AsIndex(e, {"op"})
        d == AsIndex(e, {"dnsTemp", "dnsNoHost"})
        g == AsIndex(e, NetErrorKinds)
    IN  IF IsCanceled(e) \/ IsDeadline(e) THEN FALSE
        ELSE IF o > 0 /\ (\/ \E x \in RetryableErrnos : IsErrno(From(e, o + 1), x)
                          \/ Temporary(From(e, o)))
             THEN TRUE
        ELSE IF d > 0 THEN Temporary(From(e, d))
        ELSE IF g > 0 THEN Timeout(From(e, g)) \/ Temporary(From(e, g))
        ELSE TRUE

\* The checks of IsRetryable that follow the url.Error check.
AfterUrl(e) ==
    LET o == AsIndex(e, {"op"})
        d == AsIndex(e, {"dnsTemp", "dnsNoHost"})
        g == AsIndex(e, NetErrorKinds)
    IN  IF IsCanceled(e) \/ IsDeadline(e) THEN FALSE
        ELSE IF o > 0 /\ (\/ \E x \in RetryableErrnos : IsErrno(From(e, o + 1), x)
                          \/ Temporary(From(e, o)))
             THEN TRUE
        ELSE IF d > 0 THEN Temporary(From(e, d))
        ELSE IF g > 0 THEN Timeout(From(e, g)) \/ Temporary(From(e, g))
        ELSE FALSE

RECURSIVE IsRetryableCtxFirst(_)
\* IsRetryable with the context check moved before the url.Error check.
IsRetryableCtxFirst(e) ==
    LET u == AsIndex(e, {"url"}) IN
    IF e = Nil THEN FALSE
    ELSE IF IsCanceled(e) \/ IsDeadline(e) THEN FALSE
    ELSE IF u > 0
         THEN IF Timeout(From(e, u)) THEN TRUE
              ELSE IsRetryableCtxFirst(From(e, u + 1))
    ELSE AfterUrl(e)

\* IsRetryable without the recursion into the cause of a *url.Error.
IsRetryableNoRecurse(e) ==
    LET u == AsIndex(e, {"url"}) IN
    IF e = Nil THEN FALSE
    ELSE IF u > 0 THEN Timeout(From(e, u))
    ELSE AfterUrl(e)

RECURSIVE IsRetryable(_)
IsRetryable(e) ==
    LET u == AsIndex(e, {"url"}) IN
    IF e = Nil THEN FALSE
    ELSE IF u > 0
         THEN IF Timeout(From(e, u)) THEN TRUE
              ELSE IsRetryable(From(e, u + 1))
    ELSE AfterUrl(e)

\* ------------------------------------------------------------ retry driver
VARIABLES
    cfg,        \* the Config Do is called on
    ctxErr,     \* ctx.Err(): "none", "canceled" or "deadline"
    pc,         \* where Do is: Idle, Attempting (operation running), Waiting
                \* (in the select), or returned: Succeeded, FailedTerminal,
                \* Exhausted, Cancelled
    attempt,    \* the loop variable
    delay,      \* the local delay
    lastErr,    \* the local lastErr
    timerFired, \* the time.After channel of the current select has delivered
    ret,        \* the value Do returned
    calls,      \* number of times operation() was invoked
    outcomes,   \* what each finished invocation returned, in order
    waits,      \* the duration of each timer started, in order
    cancelPc,   \* where Do was when the context was cancelled ("never" if not)
    err,        \* classifier run: the error handed to IsRetryable
    verdict,    \* classifier run: what IsRetryable returned
    clsPc       \* classifier run: "build" or "done"

doVars == <<cfg, ctxErr, pc, attempt, delay, lastErr, timerFired, ret, calls,
            outcomes, waits, cancelPc>>

clsVars == <<err, verdict, clsPc>>

VARIABLES
    env,        \* LoadConfig run: the four AZURE_LOGIN_RETRY_* settings
    loaded,     \* LoadConfig run: the Config LoadConfig returned
    ldPc        \* LoadConfig run: "env" or "loaded"

ldVars == <<env, loaded, ldPc>>

VARIABLES
    dir,        \* token store: the inode each path of the directory names
    inodes,     \* token store: the content of each inode ever created
    wpc,        \* token store: where each SaveToken call is
    wtok,       \* token store: the token each SaveToken call was given
    wfd,        \* token store: the inode each call's open file refers to
    wres,       \* token store: what each SaveToken call returned
    rdPc,       \* token store: where the LoadToken call is
    rdFd,       \* token store: the inode the LoadToken call has open
    rdRes,      \* token store: what the LoadToken call returned
    rdAfter     \* token store: the SaveToken calls that had returned by then

fsVars == <<dir, inodes, wpc, wtok, wfd, wres, rdPc, rdFd, rdRes, rdAfter>>

VARIABLES
    acStore,    \* get-access-token run: what the token file holds
    acNow,      \* get-access-token run: the clock, in minutes
    acPc,       \* get-access-token run: "start" or "returned"
    acRes       \* get-access-token run: the error returned and what was printed

acVars == <<acStore, acNow, acPc, acRes>>

VARIABLES
    kube,       \* kubeconfig merge: the Kubeconfig value
    kubePrev,   \* kubeconfig merge: the Kubeconfig before the last merge
    kcCreds,    \* kubeconfig merge: the credentials of the last merge
    kcMerges    \* kubeconfig merge: how many merges were made

kcVars == <<kube, kubePrev, kcCreds, kcMerges>>

\* The two call sites of Do: which one is running, the HTTP requests it has
\* sent and the last response.
VARIABLES site, requests, resp

siteVars == <<site, requests, resp>>

\* The time a call of Do has taken so far, in seconds.
VARIABLES elapsed

clockVars == <<elapsed>>

\* A run of login: the step it is at, the steps it has begun, and the step
\* that failed.
VARIABLES lgPc, lgSteps, lgErr

lgVars == <<lgPc, lgSteps, lgErr>>

vars == <<cfg, ctxErr, pc, attempt, delay, lastErr, timerFired, ret, calls,
          outcomes, waits, cancelPc, err, verdict, clsPc, env, loaded, ldPc,
          dir, inodes, wpc, wtok, wfd, wres, rdPc, rdFd, rdRes, rdAfter,
          acStore, acNow, acPc, acRes, kube, kubePrev, kcCreds, kcMerges,
          site, requests, resp, elapsed, lgPc, lgSteps, lgErr>>

\* The Config values Do is called on: what LoadConfig can return, each field
\* independently in its range.
Configs == [MaxAttempts : 1..MaxAtt, InitialDelay : 1..MaxInit,
            MaxDelay : 1..MaxMax, MultNum : MultDen..MaxMultNum]

\* What one invocation of the operation may return.
Outcomes == {Nil, E1("plain"), E1("canceled"), E2("wrap", "deadline"),
             E2("url", "plain"), E2("op", "ECONNRESET"), E2("url", "deadline")}

Terminal == {"Succeeded", "FailedTerminal", "Exhausted", "Cancelled"}

\* ctx.Err() once the context is done.
CtxError(kind) == E1(kind)

\* The loop condition written with < for <=.
LoopCondStrict(c, a) == a < c.MaxAttempts

\* The loop condition attempt <= c.MaxAttempts.
LoopCond(c, a) == a <= c.MaxAttempts

\* A last-attempt test that never breaks out of the loop.
LastAttemptNever(c, a) == FALSE

\* The last-attempt test one attempt early.
LastAttemptEarly(c, a) == a >= c.MaxAttempts - 1

\* The last-attempt test written with > for >=.
LastAttemptLate(c, a) == a > c.MaxAttempts

\* The test attempt >= c.MaxAttempts that breaks out of the loop.
LastAttempt(c, a) == a >= c.MaxAttempts

\* time.Duration(float64(delay) * c.BackoffMultiplier), clamped to c.MaxDelay.
NextDelay(c, d) ==
    LET m == (d * c.MultNum) \div MultDen
    IN  IF m > c.MaxDelay THEN c.MaxDelay ELSE m

\* fmt.Errorf("operation failed after %d attempts: %w", c.MaxAttempts, e)
AttemptsErr(c, e) == <<[k |-> "attempts", n |-> c.MaxAttempts]>> \o e

\* The exhausted-retries error formatted with %v: the cause is dropped.
ExhaustedErrOpaque(c, e) ==
    IF c.MaxAttempts > 1 THEN <<[k |-> "attempts", n |-> c.MaxAttempts]>> ELSE e

\* The exhausted-retries error wrapped whatever MaxAttempts is.
ExhaustedErrAlways(c, e) == AttemptsErr(c, e)

\* What Do returns once the loop is left.
ExhaustedErr(c, e) == IF c.MaxAttempts > 1 THEN AttemptsErr(c, e) ELSE e

\* A non-retryable error returned with the attempt-count framing.
TerminalErrWrapped(c, e) == AttemptsErr(c, e)

\* What Do returns for an error that is not retryable.
TerminalErr(c, e) == e

DoInit ==
    /\ cfg \in Configs
    /\ ctxErr = "none"
    /\ pc = "Idle"
    /\ attempt = 0
    /\ delay = 0
    /\ lastErr = Nil
    /\ timerFired = FALSE
    /\ ret = Nil
    /\ calls = 0
    /\ outcomes = <<>>
    /\ waits = <<>>
    /\ cancelPc = "never"

\* Do is called: lastErr and delay are set and the loop is entered.
DoCall ==
    /\ pc = "Idle"
    /\ delay' = cfg.InitialDelay
    /\ lastErr' = Nil
    /\ attempt' = 1
    /\ IF LoopCond(cfg, 1)
       THEN /\ pc' = "Attempting"
            /\ calls' = calls + 1
            /\ ret' = ret
       ELSE /\ pc' = "Exhausted"
            /\ calls' = calls
            /\ ret' = ExhaustedErr(cfg, Nil)
    /\ UNCHANGED <<cfg, ctxErr, timerFired, outcomes, waits, cancelPc>>

\* operation() returns nil: Do returns nil.
OpSucceeds ==
    /\ pc = "Attempting"
    /\ outcomes' = Append(outcomes, Nil)
    /\ pc' = "Succeeded"
    /\ ret' = Nil
    /\ UNCHANGED <<cfg, ctxErr, attempt, delay, lastErr, timerFired, calls,
                   waits, cancelPc>>

\* operation() returns an error that is not retryable: Do returns it.
OpFailsTerminal(e) ==
    /\ pc = "Attempting"
    /\ e # Nil
    /\ ~IsRetryable(e)
    /\ outcomes' = Append(outcomes, e)
    /\ lastErr' = e
    /\ pc' = "FailedTerminal"
    /\ ret' = TerminalErr(cfg, e)
    /\ UNCHANGED <<cfg, ctxErr, attempt, delay, timerFired, calls, waits,
                   cancelPc>>

\* operation() returns a retryable error on the last attempt: the loop is
\* left and the exhausted-retries error returned.
OpFailsLast(e) ==
    /\ pc = "Attempting"
    /\ e # Nil
    /\ IsRetryable(e)
    /\ LastAttempt(cfg, attempt)
    /\ outcomes' = Append(outcomes, e)
    /\ lastErr' = e
    /\ pc' = "Exhausted"
    /\ ret' = ExhaustedErr(cfg, e)
    /\ UNCHANGED <<cfg, ctxErr, attempt, delay, timerFired, calls, waits,
                   cancelPc>>

\* operation() returns a retryable error and attempts remain: the select
\* is entered with a timer of the current delay.
OpFailsRetry(e) ==
    /\ pc = "Attempting"
    /\ e # Nil
    /\ IsRetryable(e)
    /\ ~LastAttempt(cfg, attempt)
    /\ outcomes' = Append(outcomes, e)
    /\ lastErr' = e
    /\ pc' = "Waiting"
    /\ timerFired' = FALSE
    /\ waits' = Append(waits, delay)
    /\ UNCHANGED <<cfg, ctxErr, attempt, delay, ret, calls, cancelPc>>

\* A timer that wins the select although the context was done first.
TimerElapseAnyway ==
    /\ pc = "Waiting"
    /\ ~timerFired
    /\ timerFired' = TRUE
    /\ UNCHANGED <<cfg, ctxErr, pc, attempt, delay, lastErr, ret, calls,
                   outcomes, waits, cancelPc>>

\* The timer of the select elapses before the context is done: the select
\* is decided for the timer case.  (A select whose context is already done
\* takes that case; the delay is positive, so the timer is not ready then.)
TimerElapse ==
    /\ pc = "Waiting"
    /\ ~timerFired
    /\ ctxErr = "none"
    /\ timerFired' = TRUE
    /\ UNCHANGED <<cfg, ctxErr, pc, attempt, delay, lastErr, ret, calls,
                   outcomes, waits, cancelPc>>

\* case <-time.After(delay): the next delay is computed, attempt is
\* incremented and the loop condition tested.
SelectTimer ==
    /\ pc = "Waiting"
    /\ timerFired
    /\ delay' = NextDelay(cfg, delay)
    /\ attempt' = attempt + 1
    /\ IF LoopCond(cfg, attempt + 1)
       THEN /\ pc' = "Attempting"
            /\ calls' = calls + 1
            /\ ret' = ret
       ELSE /\ pc' = "Exhausted"
            /\ calls' = calls
            /\ ret' = ExhaustedErr(cfg, lastErr)
    /\ UNCHANGED <<cfg, ctxErr, lastErr, timerFired, outcomes, waits,
                   cancelPc>>

\* The cancellation case returning the operation's error.
SelectCancelOpErr ==
    /\ pc = "Waiting"
    /\ ~timerFired
    /\ ctxErr # "none"
    /\ pc' = "Cancelled"
    /\ ret' = lastErr
    /\ UNCHANGED <<cfg, ctxErr, attempt, delay, lastErr, timerFired, calls,
                   outcomes, waits, cancelPc>>

\* case <-ctx.Done(): Do returns ctx.Err().
SelectCancel ==
    /\ pc = "Waiting"
    /\ ~timerFired
    /\ ctxErr # "none"
    /\ pc' = "Cancelled"
    /\ ret' = CtxError(ctxErr)
    /\ UNCHANGED <<cfg, ctxErr, attempt, delay, lastErr, timerFired, calls,
                   outcomes, waits, cancelPc>>

\* A cancellation that ends the running attempt and makes Do return.
CancelAborts(kind) ==
    /\ ctxErr = "none"
    /\ ctxErr' = kind
    /\ cancelPc' = IF pc = "Waiting" /\ timerFired THEN "Resuming" ELSE pc
    /\ pc' = IF pc = "Attempting" THEN "Cancelled" ELSE pc
    /\ ret' = IF pc = "Attempting" THEN CtxError(kind) ELSE ret
    /\ UNCHANGED <<cfg, attempt, delay, lastErr, timerFired, calls, outcomes,
                   waits>>

\* The caller's context is cancelled or its deadline passes, at any moment.
Cancel(kind) ==
    /\ ctxErr = "none"
    /\ ctxErr' = kind
    /\ cancelPc' = IF pc = "Waiting" /\ timerFired THEN "Resuming" ELSE pc
    /\ UNCHANGED <<cfg, pc, attempt, delay, lastErr, timerFired, ret, calls,
                   outcomes, waits>>

\* ------------------------------------------------------- classifier runs
ClsIdle ==
    /\ err = Nil
    /\ verdict = FALSE
    /\ clsPc = "idle"

DoIdle ==
    /\ cfg = [MaxAttempts |-> 1, InitialDelay |-> 1, MaxDelay |-> 1,
              MultNum |-> MultDen]
    /\ ctxErr = "none"
    /\ pc = "Off"
    /\ attempt = 0
    /\ delay = 0
    /\ lastErr = Nil
    /\ timerFired = FALSE
    /\ ret = Nil
    /\ calls = 0
    /\ outcomes = <<>>
    /\ waits = <<>>
    /\ cancelPc = "never"

\* The caller has an error: nil or any leaf.
ClsInit ==
    /\ err \in {Nil} \cup {E1(l) : l \in Leaves}
    /\ verdict = FALSE
    /\ clsPc = "build"

\* The error is wrapped once more on its way up to the classifier.
WrapErr(w) ==
    /\ clsPc = "build"
    /\ err # Nil
    /\ Len(err) < MaxDepth
    /\ err' = <<L(w)>> \o err
    /\ UNCHANGED <<verdict, clsPc>>

\* IsRetryable(err) is called.
Classify ==
    /\ clsPc = "build"
    /\ verdict' = IsRetryable(err)
    /\ clsPc' = "done"
    /\ UNCHANGED err

\* ---------------------------------------------------------- LoadConfig
\* Durations are whole seconds here, and BackoffMultiplier is in tenths.
DefaultMaxAttempts == 3
DefaultInitialDelay == 1
DefaultMaxDelay == 30
DefaultMultiplier == 20
MaxAttemptsLimit == 10
InitialDelayLimit == 60
MaxDelayLimit == 300
MinMultiplier == 10
MaxMultiplier == 50

DefaultConfig ==
    [MaxAttempts |-> DefaultMaxAttempts, InitialDelay |-> DefaultInitialDelay,
     MaxDelay |-> DefaultMaxDelay, BackoffMultiplier |-> DefaultMultiplier]

\* The value of an environment variable, by what the parsers make of it:
\* not set, set to "", text that is no number, a number, or one of the
\* special values ParseFloat accepts.
EnvVal(kind, v) == [kind |-> kind, v |-> v]

Unset == EnvVal("unset", 0)

Settings == {"MAX_ATTEMPTS", "INITIAL_DELAY", "MAX_DELAY", "BACKOFF_MULTIPLIER"}

\* What an integer setting may hold, around the limits of its range.
IntInputs(limit) ==
    {EnvVal("empty", 0), EnvVal("text", 0)}
        \cup {EnvVal("num", n) : n \in {-1, 0, 1, 2, limit - 1, limit, limit + 1}}

\* What the multiplier setting may hold, in tenths.
FloatInputs ==
    {EnvVal("empty", 0), EnvVal("text", 0), EnvVal("nan", 0),
     EnvVal("posinf", 0), EnvVal("neginf", 0)}
        \cup {EnvVal("num", n) : n \in {-10, 0, MinMultiplier - 1, MinMultiplier,
                                        15, MaxMultiplier, MaxMultiplier + 1}}

Inputs(name) ==
    CASE name = "MAX_ATTEMPTS" -> IntInputs(MaxAttemptsLimit)
      [] name = "INITIAL_DELAY" -> IntInputs(InitialDelayLimit)
      [] name = "MAX_DELAY" -> IntInputs(MaxDelayLimit)
      [] OTHER -> FloatInputs

\* os.Getenv(name) != ""
IsSet(val) == val.kind \notin {"unset", "empty"}

\* strconv.Atoi(val): err == nil and the integer.
Atoi(val) == [ok |-> val.kind = "num", n |-> val.v]

\* strconv.ParseFloat(val, 64): err == nil and the float, which may be NaN
\* or an infinity.
ParseFloat(val) ==
    [ok |-> val.kind \in {"num", "nan", "posinf", "neginf"}, f |-> val]

\* f >= x and f <= x for a float64 f and a finite x in tenths.
FloatGE(f, x) == (f.kind = "num" /\ f.v >= x) \/ f.kind = "posinf"

FloatLE(f, x) == (f.kind = "num" /\ f.v <= x) \/ f.kind = "neginf"

\* The integer range check written with >= 0 for > 0.
LoadIntFromZero(val, limit, default) ==
    LET p == Atoi(val) IN
    IF IsSet(val) /\ p.ok /\ p.n >= 0 /\ p.n <= limit THEN p.n ELSE default

\* One integer field of LoadConfig.
LoadInt(val, limit, default) ==
    LET p == Atoi(val) IN
    IF IsSet(val) /\ p.ok /\ p.n > 0 /\ p.n <= limit THEN p.n ELSE default

\* The BackoffMultiplier field of LoadConfig.
LoadFloat(val, default) ==
    LET p == ParseFloat(val) IN
    IF IsSet(val) /\ p.ok /\ FloatGE(p.f, MinMultiplier)
                  /\ FloatLE(p.f, MaxMultiplier)
    THEN p.f.v ELSE default

LoadConfig(e) ==
    [MaxAttempts |->
        LoadInt(e["MAX_ATTEMPTS"], MaxAttemptsLimit, DefaultConfig.MaxAttempts),
     InitialDelay |->
        LoadInt(e["INITIAL_DELAY"], InitialDelayLimit, DefaultConfig.InitialDelay),
     MaxDelay |->
        LoadInt(e["MAX_DELAY"], MaxDelayLimit, DefaultConfig.MaxDelay),
     BackoffMultiplier |->
        LoadFloat(e["BACKOFF_MULTIPLIER"], DefaultConfig.BackoffMultiplier)]

LdIdle ==
    /\ env = [name \in Settings |-> Unset]
    /\ loaded = DefaultConfig
    /\ ldPc = "idle"

\* The process starts with none of the settings in its environment.
LdInit ==
    /\ env = [name \in Settings |-> Unset]
    /\ loaded = DefaultConfig
    /\ ldPc = "env"

\* The environment gets one more of the settings before the call.
SetEnv(name, val) ==
    /\ ldPc = "env"
    /\ env[name] = Unset
    /\ env' = [env EXCEPT ![name] = val]
    /\ UNCHANGED <<loaded, ldPc>>

\* LoadConfig() is called.
CallLoadConfig ==
    /\ ldPc = "env"
    /\ loaded' = LoadConfig(env)
    /\ ldPc' = "loaded"
    /\ UNCHANGED env

\* --------------------------------------------------------- token store
\* The config directory holds two paths, the token file and the temporary
\* file; an inode is named by its index in inodes and 0 stands for none.
Writers == 1..NWriters

\* json.Marshal(savedToken): tokens differ in content and in length. Token 0
\* is the one stored by an earlier run.
Marshal(t) == [i \in 1..(t + 1) |-> t]

\* json.Unmarshal(data, &token)
Unmarshal(data) ==
    IF \E t \in 0..NTokens : data = Marshal(t)
    THEN [err |-> "none", tok |-> CHOOSE t \in 0..NTokens : data = Marshal(t)]
    ELSE [err |-> "failed to parse token file", tok |-> -1]

\* write(2) of data at offset 0 of a file holding content.
Overwrite(content, data) ==
    data \o SubSeq(content, Len(data) + 1, Len(content))

FsIdle ==
    /\ dir = [tmp |-> 0, token |-> 0]
    /\ inodes = <<>>
    /\ wpc = [w \in Writers |-> "off"]
    /\ wtok = [w \in Writers |-> 1]
    /\ wfd = [w \in Writers |-> 0]
    /\ wres = [w \in Writers |-> "none"]
    /\ rdPc = "off"
    /\ rdFd = 0
    /\ rdRes = [err |-> "pending", tok |-> -1]
    /\ rdAfter = {}

\* The directory holds no token file or the token of an earlier run; each
\* SaveToken call has its token.
FsInit ==
    /\ \/ dir = [tmp |-> 0, token |-> 0] /\ inodes = <<>>
       \/ dir = [tmp |-> 0, token |-> 1] /\ inodes = <<Marshal(0)>>
    /\ wpc = [w \in Writers |-> "start"]
    /\ wtok \in [Writers -> 1..NTokens]
    /\ wfd = [w \in Writers |-> 0]
    /\ wres = [w \in Writers |-> "none"]
    /\ rdPc = "start"
    /\ rdFd = 0
    /\ rdRes = [err |-> "pending", tok |-> -1]
    /\ rdAfter = {}

\* SaveToken writing tokenPath itself in place of the temporary file.
WriteFileOpenInPlace(w) ==
    /\ wpc[w] = "start"
    /\ IF dir.token # 0
       THEN /\ inodes' = [inodes EXCEPT ![dir.token] = <<>>]
            /\ wfd' = [wfd EXCEPT ![w] = dir.token]
            /\ UNCHANGED dir
       ELSE /\ inodes' = Append(inodes, <<>>)
            /\ wfd' = [wfd EXCEPT ![w] = Len(inodes) + 1]
            /\ dir' = [dir EXCEPT !.token = Len(inodes) + 1]
    /\ wpc' = [wpc EXCEPT ![w] = "opened"]
    /\ UNCHANGED <<wtok, wres, rdPc, rdFd, rdRes, rdAfter>>

\* SaveToken up to the open of os.WriteFile(tmpPath, data, 0600):
\* O_WRONLY|O_CREATE|O_TRUNC creates the temporary file or empties it.
WriteFileOpen(w) ==
    /\ wpc[w] = "start"
    /\ IF dir.tmp # 0
       THEN /\ inodes' = [inodes EXCEPT ![dir.tmp] = <<>>]
            /\ wfd' = [wfd EXCEPT ![w] = dir.tmp]
            /\ UNCHANGED dir
       ELSE /\ inodes' = Append(inodes, <<>>)
            /\ wfd' = [wfd EXCEPT ![w] = Len(inodes) + 1]
            /\ dir' = [dir EXCEPT !.tmp = Len(inodes) + 1]
    /\ wpc' = [wpc EXCEPT ![w] = "opened"]
    /\ UNCHANGED <<wtok, wres, rdPc, rdFd, rdRes, rdAfter>>

\* The write and close of os.WriteFile.
WriteFileWrite(w) ==
    /\ wpc[w] = "opened"
    /\ inodes' = [inodes EXCEPT ![wfd[w]] = Overwrite(@, Marshal(wtok[w]))]
    /\ wfd' = [wfd EXCEPT ![w] = 0]
    /\ wpc' = [wpc EXCEPT ![w] = "written"]
    /\ UNCHANGED <<dir, wtok, wres, rdPc, rdFd, rdRes, rdAfter>>

\* os.Rename(tmpPath, tokenPath): fails when tmpPath does not exist.
Rename(w) ==
    /\ wpc[w] = "written"
    /\ IF dir.tmp # 0
       THEN /\ dir' = [tmp |-> 0, token |-> dir.tmp]
            /\ wres' = [wres EXCEPT ![w] = "nil"]
            /\ wpc' = [wpc EXCEPT ![w] = "returned"]
       ELSE /\ wpc' = [wpc EXCEPT ![w] = "renameFailed"]
            /\ UNCHANGED <<dir, wres>>
    /\ UNCHANGED <<inodes, wtok, wfd, rdPc, rdFd, rdRes, rdAfter>>

\* os.Remove(tmpPath) after a failed rename, and the error return.
RemoveTmp(w) ==
    /\ wpc[w] = "renameFailed"
    /\ dir' = [dir EXCEPT !.tmp = 0]
    /\ wres' = [wres EXCEPT ![w] = "failed to save token file"]
    /\ wpc' = [wpc EXCEPT ![w] = "returned"]
    /\ UNCHANGED <<inodes, wtok, wfd, rdPc, rdFd, rdRes, rdAfter>>

\* LoadToken: the open of os.ReadFile(tokenPath); a missing file makes it
\* return "not authenticated".
ReadFileOpen ==
    /\ rdPc = "start"
    /\ rdAfter' = {w \in Writers : wpc[w] = "returned"}
    /\ IF dir.token # 0
       THEN /\ rdFd' = dir.token
            /\ rdPc' = "opened"
            /\ UNCHANGED rdRes
       ELSE /\ rdRes' = [err |-> "not authenticated", tok |-> -1]
            /\ rdPc' = "returned"
            /\ UNCHANGED rdFd
    /\ UNCHANGED <<dir, inodes, wpc, wtok, wfd, wres>>

\* LoadToken: the read of os.ReadFile and json.Unmarshal.
ReadFileParse ==
    /\ rdPc = "opened"
    /\ rdRes' = Unmarshal(inodes[rdFd])
    /\ rdFd' = 0
    /\ rdPc' = "returned"
    /\ UNCHANGED <<dir, inodes, wpc, wtok, wfd, wres, rdAfter>>

\* ----------------------------------------------------- get-access-token
\* Times are whole minutes.
TokenExpirationBuffer == 5

Times == 0..MaxTime

\* What --output and --query may hold.
Formats == {"json", "tsv", "table", "JSON", "xml"}

Queries == {"", "accessToken", "["}

\* strings.ToLower(format)
ToLower(format) == IF format = "JSON" THEN "json" ELSE format

\* output.Print(data, format, query): the error it returns and what it
\* writes to stdout.
OutputPrint(format, query) ==
    IF query = "[" THEN [err |-> "invalid query", printed |-> "nothing"]
    ELSE IF ToLower(format) \notin {"json", "tsv", "table"}
         THEN [err |-> "unsupported output format", printed |-> "nothing"]
    ELSE [err |-> "none",
          printed |-> IF query = "" THEN "tokenInfo" ELSE "accessToken"]

\* cfg.LoadToken() on the token file.
AcLoadToken(store) ==
    CASE store.kind = "none" -> "not authenticated"
      [] store.kind = "corrupt" -> "failed to parse token file"
      [] OTHER -> "none"

\* The expiry test with the buffer left out.
ExpiredNoBuffer(now, expiresOn) == now > expiresOn

\* time.Now().UTC().Add(tokenExpirationBuffer).After(token.ExpiresOn)
Expired(now, expiresOn) == now + TokenExpirationBuffer > expiresOn

\* runGetAccessToken
GetAccessToken(store, now, format, query) ==
    IF AcLoadToken(store) # "none"
    THEN [err |-> "not authenticated", printed |-> "nothing"]
    ELSE IF Expired(now, store.expiresOn)
         THEN [err |-> "token expired or expiring soon", printed |-> "nothing"]
    ELSE OutputPrint(format, query)

AcIdle ==
    /\ acStore = [kind |-> "none", expiresOn |-> 0]
    /\ acNow = 0
    /\ acPc = "idle"
    /\ acRes = [err |-> "pending", printed |-> "nothing"]

\* No login has run yet: there is no token file.
AcInit ==
    /\ acStore = [kind |-> "none", expiresOn |-> 0]
    /\ acNow = 0
    /\ acPc = "start"
    /\ acRes = [err |-> "pending", printed |-> "nothing"]

\* A login stores a token that expires at expiresOn.
AcSaveToken(expiresOn) ==
    /\ acPc = "start"
    /\ acStore' = [kind |-> "token", expiresOn |-> expiresOn]
    /\ UNCHANGED <<acNow, acPc, acRes>>

\* The token file is damaged.
AcCorrupt ==
    /\ acPc = "start"
    /\ acStore.kind = "token"
    /\ acStore' = [kind |-> "corrupt", expiresOn |-> 0]
    /\ UNCHANGED <<acNow, acPc, acRes>>

\* Time passes.
AcTick ==
    /\ acPc = "start"
    /\ acNow < MaxTime
    /\ acNow' = acNow + 1
    /\ UNCHANGED <<acStore, acPc, acRes>>

\* azure-login account get-access-token runs.
RunGetAccessToken(format, query) ==
    /\ acPc = "start"
    /\ acRes' = GetAccessToken(acStore, acNow, format, query)
    /\ acPc' = "returned"
    /\ UNCHANGED <<acStore, acNow>>

\* ------------------------------------------------------- kubeconfig merge
\* A name is the sequence of the pieces that "_" separates, so that
\* fmt.Sprintf("clusterUser_%s_%s", rg, cluster) is a concatenation and two
\* different pairs can give the same user name.
ClusterNames == {<<"c">>, <<"b", "c">>}

ResourceGroups == {<<"a">>, <<"a", "b">>}

Credentials ==
    [ClusterName : ClusterNames, ResourceGroup : ResourceGroups,
     ServerURL : {"https://s1", "https://s2"}, CACertificate : {"ca"}]

\* fmt.Sprintf("clusterUser_%s_%s", creds.ResourceGroup, creds.ClusterName)
UserName(rg, cluster) == <<"clusterUser">> \o rg \o cluster

\* base64.StdEncoding.EncodeToString(creds.CACertificate)
Base64(bytes) == <<"base64", bytes>>

\* The exec configuration upsertUser writes.
KubeloginExec == "kubelogin get-token --login azurecli"

\* The index of the first entry of list named name, or 0.
IndexOfName(list, name) ==
    IF \E i \in 1..Len(list) : list[i].name = name
    THEN CHOOSE i \in 1..Len(list) :
            /\ list[i].name = name
            /\ \A j \in 1..(i - 1) : list[j].name # name
    ELSE 0

\* upsertCluster that appends without looking for the name.
UpsertClusterAppend(clusters, name, server, caCert) ==
    Append(clusters, [name |-> name, server |-> server, ca |-> caCert])

UpsertCluster(clusters, name, server, caCert) ==
    LET i == IndexOfName(clusters, name) IN
    IF i > 0
    THEN [clusters EXCEPT ![i].server = server, ![i].ca = caCert]
    ELSE Append(clusters, [name |-> name, server |-> server, ca |-> caCert])

UpsertUser(users, name) ==
    LET i == IndexOfName(users, name) IN
    IF i > 0
    THEN [users EXCEPT ![i].exec = KubeloginExec]
    ELSE Append(users, [name |-> name, exec |-> KubeloginExec])

UpsertContext(contexts, name, cluster, user) ==
    LET i == IndexOfName(contexts, name) IN
    IF i > 0
    THEN [contexts EXCEPT ![i].cluster = cluster, ![i].user = user]
    ELSE Append(contexts, [name |-> name, cluster |-> cluster, user |-> user,
                           namespace |-> ""])

MergeClusterCredentials(k, creds) ==
    LET clusterName == creds.ClusterName
        userName == UserName(creds.ResourceGroup, creds.ClusterName)
    IN  [clusters |-> UpsertCluster(k.clusters, clusterName, creds.ServerURL,
                                    Base64(creds.CACertificate)),
         users |-> UpsertUser(k.users, userName),
         contexts |-> UpsertContext(k.contexts, clusterName, clusterName,
                                    userName),
         current |-> clusterName]

\* LoadKubeconfig of a missing file.
EmptyKubeconfig ==
    [clusters |-> <<>>, users |-> <<>>, contexts |-> <<>>, current |-> <<>>]

\* A kubeconfig another tool wrote: other entries, and entries that carry
\* the names a merge uses.
ForeignKubeconfig ==
    [clusters |-> << [name |-> <<"prod">>, server |-> "https://prod",
                      ca |-> Base64("prodca")],
                     [name |-> <<"c">>, server |-> "https://old",
                      ca |-> Base64("oldca")] >>,
     users |-> << [name |-> UserName(<<"a">>, <<"b", "c">>), exec |-> "az"],
                  [name |-> <<"admin">>, exec |-> "certificate"] >>,
     contexts |-> << [name |-> <<"c">>, cluster |-> <<"c">>,
                      user |-> <<"admin">>, namespace |-> "team"],
                     [name |-> <<"prod">>, cluster |-> <<"prod">>,
                      user |-> <<"admin">>, namespace |-> ""] >>,
     current |-> <<"prod">>]

KcIdle ==
    /\ kube = EmptyKubeconfig
    /\ kubePrev = EmptyKubeconfig
    /\ kcCreds = [ClusterName |-> <<"c">>, ResourceGroup |-> <<"a">>,
                  ServerURL |-> "https://s1", CACertificate |-> "ca"]
    /\ kcMerges = -1

\* LoadKubeconfig returned the kubeconfig to merge into.
KcInit ==
    /\ kube \in {EmptyKubeconfig, ForeignKubeconfig}
    /\ kubePrev = kube
    /\ kcCreds = [ClusterName |-> <<"c">>, ResourceGroup |-> <<"a">>,
                  ServerURL |-> "https://s1", CACertificate |-> "ca"]
    /\ kcMerges = 0

\* k.MergeClusterCredentials(creds)
Merge(creds) ==
    /\ kcMerges >= 0
    /\ kcMerges < MaxMerges
    /\ kube' = MergeClusterCredentials(kube, creds)
    /\ kubePrev' = kube
    /\ kcCreds' = creds
    /\ kcMerges' = kcMerges + 1

\* ------------------------------------------------------------- call sites
\* Seconds.
OIDCRequestTimeout == 5

AzureTokenExchangeTimeout == 10

Sites == {"oidc", "azure"}

\* http.Client.Timeout of the client each site sends its request with.
RequestTimeout(s) ==
    IF s = "oidc" THEN OIDCRequestTimeout ELSE AzureTokenExchangeTimeout

\* The Config of Do as LoadConfig returns it, the multiplier over MultDen.
PolicyOf(c) ==
    [MaxAttempts |-> c.MaxAttempts, InitialDelay |-> c.InitialDelay,
     MaxDelay |-> c.MaxDelay,
     MultNum |-> (c.BackoffMultiplier * MultDen) \div MinMultiplier]

\* retry.LoadConfig() with none of the settings in the environment.
DefaultPolicy == PolicyOf(LoadConfig([name \in Settings |-> Unset]))

\* What client.Do and the body of the response may come to: a 200 response
\* with a token, a 4xx or 5xx status, a 200 response whose body is no JSON,
\* a 200 response without a token, the client's timeout, a connection
\* reset, and a request cut short because the caller's context is done.
Responses == {"ok", "status4xx", "status5xx", "malformed", "emptyToken",
              "clientTimeout", "connReset", "ctxDone"}

\* The error the operation passed to Do returns for a response.
SiteError(s, r, ctx) ==
    CASE r = "ok" -> Nil
      [] r \in {"status4xx", "status5xx"} -> E1("plain")
      [] r = "malformed" -> E2("wrap", "plain")
      [] r = "emptyToken" -> IF s = "oidc" THEN E1("plain") ELSE Nil
      [] r = "clientTimeout" -> <<L("wrap")>> \o E2("url", "deadline")
      [] r = "connReset" -> <<L("wrap"), L("url")>> \o E2("op", "ECONNRESET")
      [] OTHER -> <<L("wrap")>> \o E2("url", ctx)

SiteIdle ==
    /\ site = "none"
    /\ requests = 0
    /\ resp = "none"

\* A call site has loaded its policy and is about to call Do.
SiteInit(policies) ==
    /\ site \in Sites
    /\ requests = 0
    /\ resp = "none"
    /\ cfg \in policies
    /\ ctxErr = "none"
    /\ pc = "Idle"
    /\ attempt = 0
    /\ delay = 0
    /\ lastErr = Nil
    /\ timerFired = FALSE
    /\ ret = Nil
    /\ calls = 0
    /\ outcomes = <<>>
    /\ waits = <<>>
    /\ cancelPc = "never"

\* The operation sends its request, gets response r and returns.
Request(r) ==
    /\ pc = "Attempting"
    /\ r = "ctxDone" => ctxErr # "none"
    /\ requests' = requests + 1
    /\ resp' = r
    /\ site' = site
    /\ LET e == SiteError(site, r, ctxErr)
       IN  \/ e = Nil /\ OpSucceeds
           \/ OpFailsTerminal(e)
           \/ OpFailsLast(e)
           \/ OpFailsRetry(e)

\* ------------------------------------------------------------ time taken
\* Attempts that the client's timeout does not cut short.
AttemptTimesUnbounded(s, r) == 0..(RequestTimeout(s) + 1)

\* How long an attempt with response r can take: the client gives up at its
\* timeout.
AttemptTimes(s, r) ==
    IF r = "clientTimeout" THEN {RequestTimeout(s)} ELSE 0..RequestTimeout(s)

ClockIdle == elapsed = 0

\* d seconds pass in the step.
Spent(d) == elapsed' = elapsed + d

\* ------------------------------------------------------------------ login
\* What a flag or an environment variable may hold: nothing, text that is
\* no UUID, a UUID.
Ids == {"", "bad", "uuid"}

\* The flags and environment of a run.
LoginParams ==
    [clientFlag : Ids, clientEnv : Ids, tenantFlag : Ids, tenantEnv : Ids,
     subscriptionFlag : Ids, subscriptionEnv : Ids,
     allowNoSubscription : BOOLEAN]

\* if flag == "" { flag = os.Getenv(...) }
Effective(flag, envValue) == IF flag = "" THEN envValue ELSE flag

\* uuidPattern.MatchString(id)
IsValidUUID(id) == id = "uuid"

\* The parameter checks of runLogin, in their order.
Validate(p) ==
    LET clientID == Effective(p.clientFlag, p.clientEnv)
        tenantID == Effective(p.tenantFlag, p.tenantEnv)
        subscriptionID == Effective(p.subscriptionFlag, p.subscriptionEnv)
    IN  IF clientID = "" THEN "client-id is required"
        ELSE IF ~IsValidUUID(clientID) THEN "client-id must be a valid UUID"
        ELSE IF tenantID = "" THEN "tenant-id is required"
        ELSE IF ~IsValidUUID(tenantID) THEN "tenant-id must be a valid UUID"
        ELSE IF subscriptionID = "" /\ ~p.allowNoSubscription
             THEN "subscription-id is required"
        ELSE IF subscriptionID # "" /\ ~IsValidUUID(subscriptionID)
             THEN "subscription-id must be a valid UUID"
        ELSE "ok"

LoginSteps == <<"validate", "fetch", "exchange", "save">>

\* retryConfig.Do is called on a fresh policy with the command's context.
DoStart(policy) ==
    /\ cfg' = policy
    /\ pc' = "Idle"
    /\ attempt' = 0
    /\ delay' = 0
    /\ lastErr' = Nil
    /\ timerFired' = FALSE
    /\ ret' = Nil
    /\ calls' = 0
    /\ outcomes' = <<>>
    /\ waits' = <<>>
    /\ cancelPc' = IF ctxErr = "none" THEN "never" ELSE "Idle"
    /\ UNCHANGED ctxErr

LgIdle ==
    /\ lgPc = "off"
    /\ lgSteps = <<>>
    /\ lgErr = "none"

\* login starts: nothing has been sent, the token file is absent or holds
\* the token of an earlier run.
LgInit ==
    /\ lgPc = "validate"
    /\ lgSteps = <<"validate">>
    /\ lgErr = "none"
    /\ DoIdle
    /\ site = "none"
    /\ requests = 0
    /\ resp = "none"
    /\ \/ dir = [tmp |-> 0, token |-> 0] /\ inodes = <<>>
       \/ dir = [tmp |-> 0, token |-> 1] /\ inodes = <<Marshal(0)>>
    /\ wpc = [w \in Writers |-> "off"]
    /\ wtok = [w \in Writers |-> 1]
    /\ wfd = [w \in Writers |-> 0]
    /\ wres = [w \in Writers |-> "none"]
    /\ rdPc = "off"
    /\ rdFd = 0
    /\ rdRes = [err |-> "pending", tok |-> -1]
    /\ rdAfter = {}

\* A save that starts although the step before it failed.
LgFailAndSave(step) ==
    /\ lgPc' = "save"
    /\ lgErr' = step
    /\ lgSteps' = Append(lgSteps, "save")
    /\ wpc' = [wpc EXCEPT ![1] = "start"]

\* return fmt.Errorf(...) from the step.
LgFail(step) ==
    /\ lgPc' = "failed"
    /\ lgErr' = step
    /\ UNCHANGED <<lgSteps, wpc>>

\* The parameters are defaulted from the environment and checked.
LgValidate(p) ==
    /\ lgPc = "validate"
    /\ IF Validate(p) = "ok"
       THEN /\ lgPc' = "fetch"
            /\ UNCHANGED <<lgSteps, lgErr>>
       ELSE /\ lgPc' = "failed"
            /\ lgErr' = "validate"
            /\ UNCHANGED lgSteps
    /\ UNCHANGED <<doVars, siteVars, fsVars>>

\* GetGitHubOIDCToken up to the call of Do: without the request token or
\* URL in the environment it fails before any request.
LgStartFetch(envOK) ==
    /\ lgPc = "fetch"
    /\ pc = "Off"
    /\ lgSteps' = Append(lgSteps, "fetch")
    /\ IF envOK
       THEN /\ DoStart(DefaultPolicy)
            /\ site' = "oidc"
            /\ UNCHANGED <<lgPc, lgErr>>
       ELSE /\ lgPc' = "failed"
            /\ lgErr' = "fetch"
            /\ UNCHANGED <<doVars, site>>
    /\ UNCHANGED <<requests, resp, fsVars>>

\* GetGitHubOIDCToken returns: on success ExchangeOIDCToken is called.
LgFetched ==
    /\ lgPc = "fetch"
    /\ pc \in Terminal
    /\ IF pc = "Succeeded"
       THEN /\ lgPc' = "exchange"
            /\ lgSteps' = Append(lgSteps, "exchange")
            /\ DoStart(DefaultPolicy)
            /\ site' = "azure"
            /\ requests' = 0
            /\ resp' = "none"
            /\ UNCHANGED <<lgErr, wpc>>
       ELSE /\ LgFail("fetch")
            /\ UNCHANGED <<doVars, siteVars>>
    /\ UNCHANGED <<dir, inodes, wtok, wfd, wres, rdPc, rdFd, rdRes, rdAfter>>

\* ExchangeOIDCToken returns: on success SaveToken is called.
LgExchanged ==
    /\ lgPc = "exchange"
    /\ pc \in Terminal
    /\ IF pc = "Succeeded"
       THEN /\ lgPc' = "save"
            /\ lgSteps' = Append(lgSteps, "save")
            /\ wpc' = [wpc EXCEPT ![1] = "start"]
            /\ UNCHANGED lgErr
       ELSE LgFail("exchange")
    /\ UNCHANGED <<doVars, siteVars, dir, inodes, wtok, wfd, wres, rdPc, rdFd,
                   rdRes, rdAfter>>

\* SaveToken returns.
LgSaved ==
    /\ lgPc = "save"
    /\ wpc[1] = "returned"
    /\ lgPc' = IF wres[1] = "nil" THEN "done" ELSE "failed"
    /\ lgErr' = IF wres[1] = "nil" THEN lgErr ELSE "save"
    /\ UNCHANGED <<lgSteps, doVars, siteVars, fsVars>>

\* ------------------------------------------------------- specifications
Init == DoInit /\ ClsIdle /\ LdIdle /\ FsIdle /\ AcIdle /\ KcIdle /\ SiteIdle /\ ClockIdle /\ LgIdle

Next ==
    \/ DoCall /\ UNCHANGED <<clsVars, ldVars, fsVars, acVars, kcVars, siteVars, clockVars, lgVars>>
    \/ OpSucceeds /\ UNCHANGED <<clsVars, ldVars, fsVars, acVars, kcVars, siteVars, clockVars, lgVars>>
    \/ \E e \in Outcomes : OpFailsTerminal(e) /\ UNCHANGED <<clsVars, ldVars, fsVars, acVars, kcVars, siteVars, clockVars, lgVars>>
    \/ \E e \in Outcomes : OpFailsLast(e) /\ UNCHANGED <<clsVars, ldVars, fsVars, acVars, kcVars, siteVars, clockVars, lgVars>>
    \/ \E e \in Outcomes : OpFailsRetry(e) /\ UNCHANGED <<clsVars, ldVars, fsVars, acVars, kcVars, siteVars, clockVars, lgVars>>
    \/ TimerElapse /\ UNCHANGED <<clsVars, ldVars, fsVars, acVars, kcVars, siteVars, clockVars, lgVars>>
    \/ SelectTimer /\ UNCHANGED <<clsVars, ldVars, fsVars, acVars, kcVars, siteVars, clockVars, lgVars>>
    \/ SelectCancel /\ UNCHANGED <<clsVars, ldVars, fsVars, acVars, kcVars, siteVars, clockVars, lgVars>>
    \/ \E kind \in {"canceled", "deadline"} : Cancel(kind) /\ UNCHANGED <<clsVars, ldVars, fsVars, acVars, kcVars, siteVars, clockVars, lgVars>>

Spec == Init /\ [][Next]_vars

InitClassify == ClsInit /\ DoIdle /\ LdIdle /\ FsIdle /\ AcIdle /\ KcIdle /\ SiteIdle /\ ClockIdle /\ LgIdle

NextClassify ==
    \/ \E w \in Wrappers : WrapErr(w) /\ UNCHANGED <<doVars, ldVars, fsVars, acVars, kcVars, siteVars, clockVars, lgVars>>
    \/ Classify /\ UNCHANGED <<doVars, ldVars, fsVars, acVars, kcVars, siteVars, clockVars, lgVars>>

SpecClassify == InitClassify /\ [][NextClassify]_vars

InitLoad == LdInit /\ DoIdle /\ ClsIdle /\ FsIdle /\ AcIdle /\ KcIdle /\ SiteIdle /\ ClockIdle /\ LgIdle

NextLoad ==
    \/ \E name \in Settings : \E val \in Inputs(name) :
          SetEnv(name, val) /\ UNCHANGED <<doVars, clsVars, fsVars, acVars, kcVars, siteVars, clockVars, lgVars>>
    \/ CallLoadConfig /\ UNCHANGED <<doVars, clsVars, fsVars, acVars, kcVars, siteVars, clockVars, lgVars>>

SpecLoad == InitLoad /\ [][NextLoad]_vars

InitStore == FsInit /\ DoIdle /\ ClsIdle /\ LdIdle /\ AcIdle /\ KcIdle /\ SiteIdle /\ ClockIdle /\ LgIdle

NextStore ==
    \/ \E w \in Writers : WriteFileOpen(w) /\ UNCHANGED <<doVars, clsVars, ldVars, acVars, kcVars, siteVars, clockVars, lgVars>>
    \/ \E w \in Writers : WriteFileWrite(w) /\ UNCHANGED <<doVars, clsVars, ldVars, acVars, kcVars, siteVars, clockVars, lgVars>>
    \/ \E w \in Writers : Rename(w) /\ UNCHANGED <<doVars, clsVars, ldVars, acVars, kcVars, siteVars, clockVars, lgVars>>
    \/ \E w \in Writers : RemoveTmp(w) /\ UNCHANGED <<doVars, clsVars, ldVars, acVars, kcVars, siteVars, clockVars, lgVars>>
    \/ ReadFileOpen /\ UNCHANGED <<doVars, clsVars, ldVars, acVars, kcVars, siteVars, clockVars, lgVars>>
    \/ ReadFileParse /\ UNCHANGED <<doVars, clsVars, ldVars, acVars, kcVars, siteVars, clockVars, lgVars>>

SpecStore == InitStore /\ [][NextStore]_vars

InitAccount == AcInit /\ DoIdle /\ ClsIdle /\ LdIdle /\ FsIdle /\ KcIdle /\ SiteIdle /\ ClockIdle /\ LgIdle

NextAccount ==
    \/ \E t \in Times : AcSaveToken(t) /\ UNCHANGED <<doVars, clsVars, ldVars, fsVars, kcVars, siteVars, clockVars, lgVars>>
    \/ AcCorrupt /\ UNCHANGED <<doVars, clsVars, ldVars, fsVars, kcVars, siteVars, clockVars, lgVars>>
    \/ AcTick /\ UNCHANGED <<doVars, clsVars, ldVars, fsVars, kcVars, siteVars, clockVars, lgVars>>
    \/ \E f \in Formats : \E q \in Queries :
          RunGetAccessToken(f, q) /\ UNCHANGED <<doVars, clsVars, ldVars, fsVars, kcVars, siteVars, clockVars, lgVars>>

SpecAccount == InitAccount /\ [][NextAccount]_vars

InitKube == KcInit /\ DoIdle /\ ClsIdle /\ LdIdle /\ FsIdle /\ AcIdle /\ SiteIdle /\ ClockIdle /\ LgIdle

NextKube ==
    \E creds \in Credentials :
        Merge(creds) /\ UNCHANGED <<doVars, clsVars, ldVars, fsVars, acVars, siteVars, clockVars, lgVars>>

SpecKube == InitKube /\ [][NextKube]_vars

InitSite == SiteInit(Configs) /\ ClsIdle /\ LdIdle /\ FsIdle /\ AcIdle /\ KcIdle /\ ClockIdle /\ LgIdle

NextSite ==
    \/ DoCall /\ UNCHANGED <<siteVars, clsVars, ldVars, fsVars, acVars, kcVars, clockVars, lgVars>>
    \/ \E r \in Responses : Request(r) /\ UNCHANGED <<clsVars, ldVars, fsVars, acVars, kcVars, clockVars, lgVars>>
    \/ TimerElapse /\ UNCHANGED <<siteVars, clsVars, ldVars, fsVars, acVars, kcVars, clockVars, lgVars>>
    \/ SelectTimer /\ UNCHANGED <<siteVars, clsVars, ldVars, fsVars, acVars, kcVars, clockVars, lgVars>>
    \/ SelectCancel /\ UNCHANGED <<siteVars, clsVars, ldVars, fsVars, acVars, kcVars, clockVars, lgVars>>
    \/ \E kind \in {"canceled", "deadline"} : Cancel(kind) /\ UNCHANGED <<siteVars, clsVars, ldVars, fsVars, acVars, kcVars, clockVars, lgVars>>

SpecSite == InitSite /\ [][NextSite]_vars

InitDefault == SiteInit({DefaultPolicy}) /\ ClsIdle /\ LdIdle /\ FsIdle /\ AcIdle /\ KcIdle /\ ClockIdle /\ LgIdle

NextDefault ==
    \/ DoCall /\ UNCHANGED <<siteVars, clockVars, clsVars, ldVars, fsVars, acVars, kcVars, lgVars>>
    \/ \E r \in Responses : \E d \in AttemptTimes(site, r) : Request(r) /\ Spent(d) /\ UNCHANGED <<clsVars, ldVars, fsVars, acVars, kcVars, lgVars>>
    \/ TimerElapse /\ UNCHANGED <<siteVars, clockVars, clsVars, ldVars, fsVars, acVars, kcVars, lgVars>>
    \/ SelectTimer /\ Spent(delay) /\ UNCHANGED <<siteVars, clsVars, ldVars, fsVars, acVars, kcVars, lgVars>>
    \/ \E d \in 0..delay : SelectCancel /\ Spent(d) /\ UNCHANGED <<siteVars, clsVars, ldVars, fsVars, acVars, kcVars, lgVars>>
    \/ \E kind \in {"canceled", "deadline"} : Cancel(kind) /\ UNCHANGED <<siteVars, clockVars, clsVars, ldVars, fsVars, acVars, kcVars, lgVars>>

SpecDefault == InitDefault /\ [][NextDefault]_vars

InitLogin == LgInit /\ ClsIdle /\ LdIdle /\ AcIdle /\ KcIdle /\ ClockIdle

NextLogin ==
    \/ \E p \in LoginParams : LgValidate(p) /\ UNCHANGED <<clsVars, ldVars, acVars, kcVars, clockVars>>
    \/ \E envOK \in BOOLEAN : LgStartFetch(envOK) /\ UNCHANGED <<clsVars, ldVars, acVars, kcVars, clockVars>>
    \/ DoCall /\ UNCHANGED <<lgVars, siteVars, fsVars, clsVars, ldVars, acVars, kcVars, clockVars>>
    \/ \E r \in Responses : Request(r) /\ UNCHANGED <<lgVars, fsVars, clsVars, ldVars, acVars, kcVars, clockVars>>
    \/ TimerElapse /\ UNCHANGED <<lgVars, siteVars, fsVars, clsVars, ldVars, acVars, kcVars, clockVars>>
    \/ SelectTimer /\ UNCHANGED <<lgVars, siteVars, fsVars, clsVars, ldVars, acVars, kcVars, clockVars>>
    \/ SelectCancel /\ UNCHANGED <<lgVars, siteVars, fsVars, clsVars, ldVars, acVars, kcVars, clockVars>>
    \/ \E kind \in {"canceled", "deadline"} : Cancel(kind) /\ UNCHANGED <<lgVars, siteVars, fsVars, clsVars, ldVars, acVars, kcVars, clockVars>>
    \/ LgFetched /\ UNCHANGED <<clsVars, ldVars, acVars, kcVars, clockVars>>
    \/ LgExchanged /\ UNCHANGED <<clsVars, ldVars, acVars, kcVars, clockVars>>
    \/ WriteFileOpen(1) /\ UNCHANGED <<lgVars, doVars, siteVars, clsVars, ldVars, acVars, kcVars, clockVars>>
    \/ WriteFileWrite(1) /\ UNCHANGED <<lgVars, doVars, siteVars, clsVars, ldVars, acVars, kcVars, clockVars>>
    \/ Rename(1) /\ UNCHANGED <<lgVars, doVars, siteVars, clsVars, ldVars, acVars, kcVars, clockVars>>
    \/ LgSaved /\ UNCHANGED <<clsVars, ldVars, acVars, kcVars, clockVars>>

SpecLogin == InitLogin /\ [][NextLogin]_vars

\* The operation that was invoked returns.
OperationReturns ==
    /\ \/ OpSucceeds
       \/ \E e \in Outcomes :
            OpFailsTerminal(e) \/ OpFailsLast(e) \/ OpFailsRetry(e)
    /\ UNCHANGED <<clsVars, ldVars, fsVars, acVars, kcVars, siteVars,
                   clockVars, lgVars>>

\* The timer of the wait elapses and the select takes its case, or the
\* select takes the case of the done context.
WaitEnds ==
    /\ TimerElapse \/ SelectTimer \/ SelectCancel
    /\ UNCHANGED <<clsVars, ldVars, fsVars, acVars, kcVars, siteVars,
                   clockVars, lgVars>>

\* Do is called.
DoIsCalled ==
    /\ DoCall
    /\ UNCHANGED <<clsVars, ldVars, fsVars, acVars, kcVars, siteVars,
                   clockVars, lgVars>>

\* Runs of Do in which every invocation of the operation returns and every
\* wait ends.
SpecLive ==
    /\ Init
    /\ [][Next]_vars
    /\ WF_vars(DoIsCalled)
    /\ WF_vars(OperationReturns)
    /\ WF_vars(WaitEnds)

\* --------------------------------------------------------------- claims
Returned == pc \in Terminal

NeverCancelled == ctxErr = "none"

Last(s) == s[Len(s)]

\* Every finished invocation returned a retryable error.
AllRetryable(s) == \A i \in 1..Len(s) : s[i] # Nil /\ IsRetryable(s[i])

\* target is e or is reached from e by unwrapping.
UnwrapsTo(e, target) == \E i \in 1..Len(e) : From(e, i) = target

RECURSIVE Pow(_, _)
Pow(b, n) == IF n = 0 THEN 1 ELSE b * Pow(b, n - 1)

Min2(a, b) == IF a < b THEN a ELSE b

\* C1: whenever an invocation returns a non-retryable error, it is the last
\* invocation, Do has returned that very error (no attempt-count wrapper)
\* and no timer was started after it; when it is the first invocation the
\* operation was invoked exactly once and no wait was performed at all.
C1_NonRetryableReturnedUnchanged ==
    \A i \in 1..Len(outcomes) :
        (outcomes[i] # Nil /\ ~IsRetryable(outcomes[i])) =>
            /\ i = Len(outcomes)
            /\ pc = "FailedTerminal"
            /\ ret = outcomes[i]
            /\ calls = i
            /\ Len(waits) = i - 1

C1_Witness ==
    /\ pc = "FailedTerminal"
    /\ cfg.MaxAttempts = 3
    /\ calls = 1
    /\ waits = <<>>
    /\ ret = E1("plain")

\* C2: when Do has returned, cancellation never fired and every invocation
\* returned a retryable error, the operation was invoked exactly MaxAttempts
\* times, the last invocation's error is reached by unwrapping the returned
\* error, and for MaxAttempts > 1 the returned error carries an attempt
\* count equal to the number of invocations made.
C2_ExhaustionWrapsLastError ==
    (Returned /\ NeverCancelled /\ AllRetryable(outcomes)) =>
        /\ calls = cfg.MaxAttempts
        /\ Len(outcomes) = calls
        /\ UnwrapsTo(ret, Last(outcomes))
        /\ cfg.MaxAttempts > 1 => (ret[1].k = "attempts" /\ ret[1].n = calls)

C2_Witness ==
    /\ pc = "Exhausted"
    /\ NeverCancelled
    /\ cfg.MaxAttempts = 3
    /\ outcomes = <<E2("op", "ECONNRESET"), E2("op", "ECONNRESET"),
                    E2("url", "deadline")>>
    /\ ret = AttemptsErr(cfg, E2("url", "deadline"))

\* C3: Do does not return while cancellation has not fired, every invocation
\* so far failed retryably and fewer than MaxAttempts invocations finished;
\* and an invocation that returns nil is the last one: Do has returned nil
\* and made exactly that many invocations.
C3_SucceedsOnNthAttempt ==
    /\ (NeverCancelled /\ AllRetryable(outcomes)
            /\ Len(outcomes) < cfg.MaxAttempts) => ~Returned
    /\ \A i \in 1..Len(outcomes) :
          outcomes[i] = Nil =>
              /\ i = Len(outcomes)
              /\ pc = "Succeeded"
              /\ ret = Nil
              /\ calls = i

C3_Witness ==
    /\ pc = "Succeeded"
    /\ NeverCancelled
    /\ cfg.MaxAttempts = 3
    /\ calls = 3
    /\ AllRetryable(SubSeq(outcomes, 1, 2))
    /\ ret = Nil

\* C4: with MaxAttempts = 1 the operation is invoked at most once, Do never
\* waits, it has returned as soon as the invocation finished, and it
\* returned exactly what the invocation returned (nil, or the error with no
\* attempt-count wrapper).
C4_SingleAttemptNoWrapping ==
    cfg.MaxAttempts = 1 =>
        /\ calls <= 1
        /\ waits = <<>>
        /\ pc # "Waiting"
        /\ Len(outcomes) = 1 => (Returned /\ calls = 1 /\ ret = outcomes[1])
        /\ Returned => Len(outcomes) = 1

C4_Witness ==
    /\ cfg.MaxAttempts = 1
    /\ pc = "Exhausted"
    /\ calls = 1
    /\ ret = E2("op", "ECONNRESET")

\* C5: once the context is cancelled while Do is in the select and the
\* timer has not elapsed, Do is either still in that select or has returned
\* ctx.Err(); no invocation was started after the wait began and fewer than
\* MaxAttempts invocations were made.
C5_CancelDuringWait ==
    cancelPc = "Waiting" =>
        /\ \/ pc = "Waiting" /\ ~timerFired
           \/ pc = "Cancelled" /\ ret = CtxError(ctxErr)
        /\ calls = Len(waits)
        /\ Len(outcomes) = calls
        /\ calls < cfg.MaxAttempts

C5_Witness ==
    /\ cancelPc = "Waiting"
    /\ pc = "Cancelled"
    /\ ret = E1("canceled")
    /\ lastErr = E2("op", "ECONNRESET")
    /\ calls = 2

\* C6: the n-th timer started has duration
\* min(InitialDelay * multiplier^(n-1), MaxDelay), for every n.
C6_WaitsFollowSchedule ==
    \A n \in 1..Len(waits) :
        waits[n] * Pow(MultDen, n - 1) =
            Min2(cfg.InitialDelay * Pow(cfg.MultNum, n - 1),
                 cfg.MaxDelay * Pow(MultDen, n - 1))

\* C7: no timer started by Do is longer than MaxDelay; with
\* InitialDelay > MaxDelay the first one has duration MaxDelay.
C7_NoWaitExceedsMaxDelay ==
    /\ \A n \in 1..Len(waits) : waits[n] <= cfg.MaxDelay
    /\ (cfg.InitialDelay > cfg.MaxDelay /\ Len(waits) >= 1) =>
          waits[1] = cfg.MaxDelay

\* C8: a run starts at most MaxAttempts - 1 timers, and once MaxAttempts
\* invocations have finished Do has returned without entering the select
\* again (it is never cancelled there): one timer fewer than invocations.
C8_NoWaitAfterFinalAttempt ==
    /\ Len(waits) <= cfg.MaxAttempts - 1
    /\ Len(outcomes) >= cfg.MaxAttempts =>
          /\ pc \in {"Succeeded", "FailedTerminal", "Exhausted"}
          /\ Len(outcomes) = cfg.MaxAttempts
          /\ Len(waits) = cfg.MaxAttempts - 1

C8_Witness ==
    /\ cfg.MaxAttempts = 3
    /\ Len(outcomes) = 3
    /\ pc = "Exhausted"
    /\ Len(waits) = 2
    /\ ctxErr # "none"

\* C9: once Do has been called the operation has been invoked at least
\* once, whatever the Config and whether or not the context was already
\* done; no timer is started and no cancellation observed before the first
\* invocation has finished.
C9_FirstAttemptUnconditional ==
    /\ pc # "Idle" => calls >= 1
    /\ Len(waits) >= 1 => Len(outcomes) >= 1
    /\ pc \in {"Waiting", "Cancelled"} => Len(outcomes) >= 1
    /\ Returned => Len(outcomes) >= 1

C9_Witness ==
    /\ cancelPc = "Idle"
    /\ pc = "Attempting"
    /\ calls = 1
    /\ outcomes = <<>>

\* Some *url.Error in the chain of e reports Timeout() = true.
SelfReportedTimeout(e) ==
    \E i \in 1..Len(e) : e[i].k = "url" /\ Timeout(From(e, i))

\* C10: IsRetryable returns true for every error whose chain holds a
\* *url.Error that reports a timeout, whatever wraps it and also when its
\* cause is context.DeadlineExceeded.
C10_TransportTimeoutRetryable ==
    (clsPc = "done" /\ SelfReportedTimeout(err)) => verdict = TRUE

C10_Witness ==
    /\ clsPc = "done"
    /\ err = <<L("wrap"), L("url"), L("url"), L("deadline")>>
    /\ IsDeadline(err)
    /\ verdict = TRUE

\* The layers of e that are *net.OpError values.
OpLayers(e) == {i \in 1..Len(e) : e[i].k = "op"}

\* The layers of e that are *url.Error values.
UrlLayers(e) == {i \in 1..Len(e) : e[i].k = "url"}

\* The layers of e that implement net.Error.
NetErrorLayers(e) == {i \in 1..Len(e) : e[i].k \in NetErrorKinds}

SetMin(S) == CHOOSE x \in S : \A y \in S : x <= y

SetMax(S) == CHOOSE x \in S : \A y \in S : x >= y

\* Rule "connection-specific codes": a *net.OpError whose cause is one of
\* the six retryable errnos.
HasRetryableCode(e) ==
    \E i \in OpLayers(e) : \E x \in RetryableErrnos : IsErrno(From(e, i + 1), x)

\* Rule "generic temporary flag": the *net.OpError that errors.As finds
\* reports Temporary().
HasTemporaryOp(e) ==
    OpLayers(e) # {} /\ Temporary(From(e, SetMin(OpLayers(e))))

\* Rule "DNS-specific": a *net.DNSError in the chain.
HasDNS(e) == \E i \in 1..Len(e) : e[i].k \in {"dnsTemp", "dnsNoHost"}

\* The rules in the order of precedence, each with whether it applies to e
\* and the verdict it gives.
Rules(e) ==
    << [applies |-> SelfReportedTimeout(e), verdict |-> TRUE],
       [applies |-> IsCanceled(e) \/ IsDeadline(e), verdict |-> FALSE],
       [applies |-> HasRetryableCode(e), verdict |-> TRUE],
       [applies |-> HasTemporaryOp(e), verdict |-> TRUE],
       [applies |-> HasDNS(e),
        verdict |-> \E i \in 1..Len(e) : e[i].k = "dnsTemp"],
       [applies |-> NetErrorLayers(e) # {},
        verdict |-> /\ NetErrorLayers(e) # {}
                    /\ LET g == SetMin(NetErrorLayers(e))
                       IN  Timeout(From(e, g)) \/ Temporary(From(e, g))],
       [applies |-> TRUE, verdict |-> FALSE] >>

\* The verdict of the highest-precedence rule that applies to e.
PrecedenceVerdict(e) ==
    Rules(e)[SetMin({i \in 1..7 : Rules(e)[i].applies})].verdict

\* How many of the six classifications apply to e.
Applicable(e) == Cardinality({i \in 1..6 : Rules(e)[i].applies})

\* The part of the chain the rules after the first look at: the whole chain
\* when it holds no *url.Error or one that reports a timeout, otherwise the
\* cause of the innermost *url.Error.
RuleScope(e) ==
    IF UrlLayers(e) = {} \/ SelfReportedTimeout(e) THEN e
    ELSE From(e, SetMax(UrlLayers(e)) + 1)

\* C11: IsRetryable returns false for every error whose cause is
\* context.Canceled or context.DeadlineExceeded itself (the caller's
\* cancellation or deadline), whatever wraps it.
C11_CallerCancellationNotRetryable ==
    (clsPc = "done" /\ err # Nil /\ Last(err).k \in {"canceled", "deadline"})
        => verdict = FALSE

\* C12 (as stated): the verdict is that of the highest-precedence rule that
\* applies to the error value handed to IsRetryable, the rules being
\* matched against its whole chain.
C12_PrecedenceOnWholeChain ==
    clsPc = "done" => verdict = PrecedenceVerdict(err)

\* C12 (amended): the verdict is that of the highest-precedence rule that
\* applies, the rules being matched against the cause of the innermost
\* *url.Error when no *url.Error of the chain reports a timeout (what wraps
\* such a *url.Error is not looked at), against the whole chain otherwise.
C12_PrecedenceWithinScope ==
    clsPc = "done" => verdict = PrecedenceVerdict(RuleScope(err))

C12_Witness ==
    /\ clsPc = "done"
    /\ err = <<L("wrap"), L("url"), L("op"), L("ioTimeout")>>
    /\ Applicable(err) >= 3
    /\ verdict = TRUE

\* C13 (as stated): an error wrapped by fmt.Errorf("%w") or by a *url.Error
\* gets the verdict of the error it wraps.
C13_WrapperTransparent ==
    (clsPc = "done" /\ Len(err) >= 2 /\ err[1].k \in {"wrap", "url"})
        => verdict = IsRetryable(Child(err))

\* C13 (amended): an error wrapped by fmt.Errorf("%w") gets the verdict of
\* the error it wraps; an error wrapped by a *url.Error gets that verdict
\* too unless the *url.Error reports a timeout, which makes the verdict true.
C13_WrapperTransparentUnlessTimeout ==
    (clsPc = "done" /\ Len(err) >= 2) =>
        /\ err[1].k = "wrap" => verdict = IsRetryable(Child(err))
        /\ err[1].k = "url" =>
              verdict = (Timeout(err) \/ IsRetryable(Child(err)))

C13_Witness ==
    /\ clsPc = "done"
    /\ err = <<L("wrap"), L("url"), L("op"), L("ECONNRESET")>>
    /\ verdict = TRUE
    /\ IsRetryable(Child(Child(err)))

\* Connection reset, connection refused, network unreachable, host
\* unreachable, connection aborted, operation timed out.
ConnectionCodes == {"ECONNRESET", "ECONNREFUSED", "ENETUNREACH",
                    "EHOSTUNREACH", "ECONNABORTED", "ETIMEDOUT"}

\* e is a *net.OpError whose cause is one of the six connection codes or
\* that reports Temporary().
RetryableOpError(e) ==
    /\ e # Nil
    /\ e[1].k = "op"
    /\ \/ \E x \in ConnectionCodes : IsErrno(Child(e), x)
       \/ Temporary(e)

\* C14 (as stated): IsRetryable returns true for every *net.OpError whose
\* cause is one of the six connection codes and for every *net.OpError
\* that reports Temporary().
C14_ConnectionErrorsRetryable ==
    (clsPc = "done" /\ RetryableOpError(err)) => verdict = TRUE

\* C14 (amended): IsRetryable returns true for every such *net.OpError, also
\* under fmt.Errorf wrappers, provided the error is not a cancellation or a
\* deadline expiry (errors.Is context.Canceled / context.DeadlineExceeded)
\* and no *url.Error lies in its chain.
C14_ConnectionErrorsRetryableUnlessContext ==
    \A i \in 1..Len(err) :
        (/\ clsPc = "done"
         /\ \A j \in 1..(i - 1) : err[j].k = "wrap"
         /\ RetryableOpError(From(err, i))
         /\ UrlLayers(err) = {}
         /\ ~IsCanceled(err) /\ ~IsDeadline(err)) => verdict = TRUE

C14_Witness ==
    /\ clsPc = "done"
    /\ err = <<L("wrap"), L("op"), L("sys"), L("ECONNRESET")>>
    /\ RetryableOpError(Child(err))
    /\ ~Temporary(Child(err))
    /\ verdict = TRUE

\* Some layer of e matches one of the retryable rules: a *url.Error that
\* reports a timeout, a *net.OpError with one of the six connection codes
\* or Temporary(), a temporary *net.DNSError, or a net.Error that reports
\* Timeout() or Temporary().
MatchesRetryableRule(e) ==
    \/ SelfReportedTimeout(e)
    \/ \E i \in OpLayers(e) : RetryableOpError(From(e, i))
    \/ \E i \in 1..Len(e) : e[i].k = "dnsTemp"
    \/ \E i \in NetErrorLayers(e) :
          Timeout(From(e, i)) \/ Temporary(From(e, i))

\* C15: IsRetryable returns false for nil and for every error no layer of
\* which matches a retryable rule, among them errors.New values wrapped or
\* not.
C15_DefaultNotRetryable ==
    /\ (clsPc = "done" /\ err = Nil) => verdict = FALSE
    /\ (clsPc = "done" /\ ~MatchesRetryableRule(err)) => verdict = FALSE

C15_Witness ==
    /\ clsPc = "done"
    /\ err = <<L("wrap"), L("url"), L("op"), L("plain")>>
    /\ ~MatchesRetryableRule(err)
    /\ verdict = FALSE

\* C16 (as stated): whenever Do has returned an error after at least one
\* invocation failed, the last invocation's error is the returned error or
\* is reached from it by unwrapping.
C16_NeverSwallows ==
    (Returned /\ ret # Nil /\ Len(outcomes) >= 1 /\ Last(outcomes) # Nil)
        => UnwrapsTo(ret, Last(outcomes))

\* C16 (amended): the same, for every return of Do except the one from the
\* select on cancellation, which returns ctx.Err() alone.
C16_NeverSwallowsUnlessCancelled ==
    /\ (Returned /\ ret # Nil /\ pc # "Cancelled")
          => (Last(outcomes) # Nil /\ UnwrapsTo(ret, Last(outcomes)))
    /\ pc = "Cancelled"
          => (ret = CtxError(ctxErr) /\ Last(outcomes) = lastErr)

C16_Witness ==
    /\ pc = "Exhausted"
    /\ cfg.MaxAttempts = 2
    /\ outcomes = <<E2("url", "deadline"), E2("op", "ECONNRESET")>>
    /\ ret = AttemptsErr(cfg, E2("op", "ECONNRESET"))
    /\ ctxErr = "canceled"

\* The transitions of the state machine of Do: Waiting is entered from
\* Attempting on a retryable failure that is not the last attempt.
Transitions ==
    { <<"Idle", "Attempting">>,
      <<"Attempting", "Succeeded">>,
      <<"Attempting", "FailedTerminal">>,
      <<"Attempting", "Waiting">>,
      <<"Attempting", "Exhausted">>,
      <<"Waiting", "Attempting">>,
      <<"Waiting", "Cancelled">> }

\* C17: every step of Do that changes its state follows one of the
\* transitions Idle -> Attempting -> {Succeeded, FailedTerminal, Waiting,
\* Exhausted}, Waiting -> {Attempting, Cancelled}; Waiting is left to
\* Attempting only after the timer fired and to Cancelled only after the
\* context was done; a terminal state is never left and the returned value
\* never changes afterwards.
C17_StateMachine ==
    [][ /\ pc' # pc => <<pc, pc'>> \in Transitions
        /\ (pc = "Waiting" /\ pc' = "Attempting") => timerFired
        /\ (pc = "Waiting" /\ pc' = "Cancelled") => ctxErr # "none"
        /\ pc \in Terminal => (pc' = pc /\ ret' = ret) ]_vars

C17_Witness ==
    /\ pc = "Cancelled"
    /\ calls = 3
    /\ Len(waits) = 3
    /\ cancelPc = "Waiting"

\* The setting holds a number that lies in lo..hi.
ValidNumber(val, lo, hi) == val.kind = "num" /\ val.v >= lo /\ val.v <= hi

\* The field a setting gives: its number when valid, the default otherwise.
Expected(val, lo, hi, default) ==
    IF ValidNumber(val, lo, hi) THEN val.v ELSE default

\* C18: whatever the four settings hold (absent, empty, no number, out of
\* range, valid), LoadConfig returns a Config, and each of its fields is
\* the number of its own setting when that is valid (1-10 attempts, 1-60 s,
\* 1-300 s, multiplier 1.0-5.0) and the default (3, 1 s, 30 s, 2.0)
\* otherwise, independently of the other settings.
C18_LoadConfigFallsBack ==
    ldPc = "loaded" =>
        /\ loaded.MaxAttempts = Expected(env["MAX_ATTEMPTS"], 1, 10, 3)
        /\ loaded.InitialDelay = Expected(env["INITIAL_DELAY"], 1, 60, 1)
        /\ loaded.MaxDelay = Expected(env["MAX_DELAY"], 1, 300, 30)
        /\ loaded.BackoffMultiplier =
              Expected(env["BACKOFF_MULTIPLIER"], 10, 50, 20)

C18_Witness ==
    /\ ldPc = "loaded"
    /\ env["MAX_ATTEMPTS"] = EnvVal("num", 11)
    /\ env["INITIAL_DELAY"] = EnvVal("num", 60)
    /\ env["MAX_DELAY"] = EnvVal("text", 0)
    /\ env["BACKOFF_MULTIPLIER"] = EnvVal("num", 15)
    /\ loaded = [MaxAttempts |-> 3, InitialDelay |-> 60, MaxDelay |-> 30,
                 BackoffMultiplier |-> 15]

\* C19: every Config LoadConfig returns has MaxDelay >= InitialDelay,
\* MaxAttempts >= 1, InitialDelay > 0 and BackoffMultiplier >= 1.0.
C19_PolicyInvariant ==
    ldPc = "loaded" =>
        /\ loaded.MaxDelay >= loaded.InitialDelay
        /\ loaded.MaxAttempts >= 1
        /\ loaded.InitialDelay > 0
        /\ loaded.BackoffMultiplier >= 10

\* The part of C19 that holds: the three single-field bounds.
C19_FieldBounds ==
    ldPc = "loaded" =>
        /\ loaded.MaxAttempts >= 1
        /\ loaded.InitialDelay > 0
        /\ loaded.BackoffMultiplier >= 10

\* The tokens the SaveToken calls were given.
TokensSaved == {wtok[w] : w \in Writers}

\* C20: every SaveToken call that has returned, returned nil, whatever the
\* interleaving of the calls' steps; and a LoadToken that starts after all
\* of them have returned, returns one of the tokens they were given.
C20_ConcurrentSavesSucceed ==
    /\ \A w \in Writers : wpc[w] = "returned" => wres[w] = "nil"
    /\ (rdPc = "returned" /\ rdAfter = Writers) =>
          (rdRes.err = "none" /\ rdRes.tok \in TokensSaved)

\* The directory held the token of an earlier run when the calls started
\* (no SaveToken call is given token 0).
PreviousToken == inodes # <<>> /\ inodes[1] = Marshal(0)

\* No SaveToken call other than w has started.
OnlyWriter(w) == \A o \in Writers \ {w} : wpc[o] = "start"

\* C21: with a single SaveToken call running, a LoadToken call that runs at
\* any point of it returns the token SaveToken was given, or else what was
\* stored before (the earlier token, or "not authenticated" when there was
\* none), never a parse failure; and once that SaveToken has returned nil
\* the temporary file does not exist and the token file holds its token.
C21_AtomicReplace ==
    \A w \in Writers :
        OnlyWriter(w) =>
            /\ rdPc = "returned" =>
                  \/ rdRes = [err |-> "none", tok |-> wtok[w]]
                  \/ PreviousToken /\ rdRes = [err |-> "none", tok |-> 0]
                  \/ ~PreviousToken /\ rdRes.err = "not authenticated"
            /\ wpc[w] = "returned" =>
                  /\ wres[w] = "nil"
                  /\ dir.tmp = 0
                  /\ dir.token # 0
                  /\ inodes[dir.token] = Marshal(wtok[w])

C21_Witness ==
    /\ OnlyWriter(1)
    /\ wpc[1] = "returned"
    /\ wres[1] = "nil"
    /\ rdPc = "returned"
    /\ rdAfter = {}
    /\ rdRes = [err |-> "none", tok |-> 0]
    /\ dir.tmp = 0

C23_RefreshesExpiredToken ==
    (acPc = "returned" /\ acStore.kind = "token"
        /\ acNow > acStore.expiresOn) =>
            (acRes.err = "none" /\ acRes.printed # "nothing")

\* How many entries of list are named name.
CountName(list, name) == Cardinality({i \in 1..Len(list) : list[i].name = name})

UniqueNames(list) ==
    \A i, j \in 1..Len(list) : list[i].name = list[j].name => i = j

\* cur is prev with the entry named name updated where it was, or added at
\* the end when prev had none; every other entry is the same.
UpsertedByName(prev, cur, name) ==
    /\ CountName(cur, name) = 1
    /\ Len(cur) = Len(prev) + (IF CountName(prev, name) = 0 THEN 1 ELSE 0)
    /\ \A i \in 1..Len(prev) :
          IF prev[i].name = name THEN cur[i].name = name ELSE cur[i] = prev[i]

\* C24: after a merge of credentials for cluster C of resource group G into
\* a kubeconfig with unique names, the cluster and context lists hold exactly
\* one entry named C and the user list exactly one named clusterUser_G_C,
\* each updated where it was or added at the end, all other entries being
\* unchanged; the context names cluster C and that user, the cluster entry
\* holds the server and the encoded certificate, current-context is C, and
\* merging the same credentials again gives the same kubeconfig.
C24_MergeIsUpsert ==
    LET c == kcCreds.ClusterName
        u == UserName(kcCreds.ResourceGroup, kcCreds.ClusterName)
    IN  (/\ kcMerges >= 1
         /\ UniqueNames(kubePrev.clusters)
         /\ UniqueNames(kubePrev.contexts)
         /\ UniqueNames(kubePrev.users)) =>
            /\ UpsertedByName(kubePrev.clusters, kube.clusters, c)
            /\ UpsertedByName(kubePrev.contexts, kube.contexts, c)
            /\ UpsertedByName(kubePrev.users, kube.users, u)
            /\ \A i \in 1..Len(kube.clusters) :
                  kube.clusters[i].name = c =>
                      /\ kube.clusters[i].server = kcCreds.ServerURL
                      /\ kube.clusters[i].ca = <<"base64", kcCreds.CACertificate>>
            /\ \A i \in 1..Len(kube.contexts) :
                  kube.contexts[i].name = c =>
                      /\ kube.contexts[i].cluster = c
                      /\ kube.contexts[i].user = u
            /\ kube.current = c
            /\ MergeClusterCredentials(kube, kcCreds) = kube

C24_Witness ==
    /\ kcMerges = 2
    /\ kcCreds.ClusterName = <<"c">>
    /\ kcCreds.ResourceGroup = <<"a", "b">>
    /\ Len(kubePrev.clusters) = 3
    /\ Len(kube.clusters) = 3
    /\ Len(kube.users) = 2
    /\ kube.contexts[1].namespace = "team"
    /\ kube.contexts[1].user = UserName(<<"a", "b">>, <<"c">>)

RECURSIVE Sum(_)
Sum(s) == IF s = <<>> THEN 0 ELSE Head(s) + Sum(Tail(s))

ApplicationResponses == {"status4xx", "status5xx", "malformed", "emptyToken"}

\* The last response ended Do with the operation's own error: no wait and
\* no request after it, no attempt-count framing.
SurfacedAtOnce ==
    /\ pc = "FailedTerminal"
    /\ ret # Nil
    /\ ret = Last(outcomes)
    /\ ret[1].k # "attempts"
    /\ requests = Len(outcomes)
    /\ Len(waits) = Len(outcomes) - 1
    /\ Len(outcomes) = 1 => requests = 1

\* C26: at both call sites and for every policy, a response with a non-200
\* status, a malformed body or an empty token ends Do at once with the
\* operation's error: one HTTP request for it, no retry, no attempt-count
\* framing.
C26_ApplicationErrorsTerminal ==
    resp \in ApplicationResponses => SurfacedAtOnce

\* The same for all but the token exchange's response without a token.
C26_ExceptExchangeWithoutToken ==
    (resp \in ApplicationResponses /\ ~(site = "azure" /\ resp = "emptyToken"))
        => SurfacedAtOnce

\* Do leaves a running attempt only when the operation returns, and returns
\* the cancellation error only from the wait.
LeavesAttemptByReturn ==
    /\ (pc = "Attempting" /\ pc' # "Attempting") =>
            /\ Len(outcomes') = Len(outcomes) + 1
            /\ pc' # "Cancelled"
    /\ (pc # "Cancelled" /\ pc' = "Cancelled") => pc = "Waiting"

\* The attempt that was running when the context was cancelled has
\* finished with success or a non-retryable error, and Do returned that.
CancelledAttemptDecides ==
    (cancelPc = "Attempting" /\ pc # "Attempting") =>
        /\ outcomes # <<>>
        /\ LET o == Last(outcomes)
           IN  /\ o = Nil => (pc = "Succeeded" /\ ret = Nil)
               /\ (o # Nil /\ ~IsRetryable(o)) =>
                       (pc = "FailedTerminal" /\ ret = o)

\* C27: a cancellation that fires while an attempt is running does not make
\* Do return before the operation does, and when that attempt returns
\* success or a non-retryable error Do returns that outcome, not the
\* cancellation error; the cancellation error is returned only from the
\* wait between attempts.
C27_NeverAbortsAttempt ==
    /\ []CancelledAttemptDecides
    /\ [][LeavesAttemptByReturn]_vars

C27_Witness ==
    /\ cancelPc = "Attempting"
    /\ ctxErr = "canceled"
    /\ calls = 2
    /\ pc = "FailedTerminal"
    /\ ret = E1("plain")

\* The context was done before the select of the wait was entered.
CancelledBeforeWait == cancelPc \in {"Idle", "Attempting"}

\* A wait entered with the context done ends with the cancellation error
\* and no further invocation; after a cancellation during an attempt no
\* invocation is started at all.
CancelledWaitReturns ==
    /\ (CancelledBeforeWait /\ pc = "Waiting") =>
            /\ pc' = "Cancelled"
            /\ ret' = CtxError(ctxErr)
            /\ calls' = calls
            /\ outcomes' = outcomes
    /\ cancelPc = "Attempting" => calls' = calls

\* C28: when the context is already done (cancelled before Do was called or
\* during the attempt) as a retryable failure takes Do into a wait with a
\* positive delay, the timer never wins: Do starts no further attempt and
\* returns the cancellation error.  After a cancellation during an attempt
\* only that attempt completes; after one before the call only the first.
C28_CancelledWaitReturnsCtxErr ==
    /\ [](CancelledBeforeWait /\ pc = "Waiting" => delay > 0 /\ ~timerFired)
    /\ [](cancelPc = "Idle" => calls <= 1)
    /\ [](CancelledBeforeWait /\ pc = "Cancelled" => ret = CtxError(ctxErr))
    /\ [][CancelledWaitReturns]_vars

C28_Witness ==
    /\ cancelPc = "Idle"
    /\ pc = "Cancelled"
    /\ calls = 1
    /\ IsRetryable(Last(outcomes))
    /\ ret = E1("deadline")

\* The token directory is as login found it: no token file and no temporary
\* file, or the token file of the earlier run and no temporary file.
StoreUntouched ==
    \/ dir = [tmp |-> 0, token |-> 0] /\ inodes = <<>>
    \/ dir = [tmp |-> 0, token |-> 1] /\ inodes = <<Marshal(0)>>

\* A step is begun only after the one before it succeeded, and the token
\* directory changes only in the save step of a run without a failure.
StepsInOrder ==
    /\ (lgPc = "validate" /\ lgPc' = "fetch") => pc = "Off"
    /\ (lgPc = "fetch" /\ lgPc' = "exchange") =>
            (pc = "Succeeded" /\ site = "oidc")
    /\ (lgPc = "exchange" /\ lgPc' = "save") =>
            (pc = "Succeeded" /\ site = "azure")
    /\ lgPc' = "save" => lgPc \in {"exchange", "save"}
    /\ <<dir, inodes>>' # <<dir, inodes>> => (lgPc = "save" /\ lgErr = "none")
    /\ lgPc = "failed" => (lgSteps' = lgSteps /\ UNCHANGED fsVars
                              /\ requests' = requests)

\* C29: login begins its steps in the order validation, OIDC token fetch,
\* token exchange, save, each only after the one before succeeded; when
\* validation, the fetch or the exchange fails, that step is the last one
\* begun and the token file and directory are as they were before the run;
\* the store is written only in the save step.
C29_SaveOnlyAfterAllSucceed ==
    /\ [](\E n \in 0..4 : lgSteps = SubSeq(LoginSteps, 1, n))
    /\ [](lgErr \in {"validate", "fetch", "exchange"} =>
            /\ lgPc = "failed"
            /\ Last(lgSteps) = lgErr
            /\ StoreUntouched)
    /\ [](lgPc \in {"validate", "fetch", "exchange"} => StoreUntouched)
    /\ [](lgPc \in {"save", "done"} =>
            (lgErr = "none" /\ pc = "Succeeded" /\ site = "azure"))
    /\ [][StepsInOrder]_vars

C29_Witness ==
    /\ lgPc = "failed"
    /\ lgErr = "exchange"
    /\ lgSteps = <<"validate", "fetch", "exchange">>
    /\ pc = "Exhausted"
    /\ requests = 3
    /\ inodes = <<Marshal(0)>>
    /\ dir.token = 1

\* C30: a call of Do, when every invocation of the operation returns and
\* every started timer elapses or the context is cancelled, returns; it has
\* then one result that no longer changes, and at all times it has made at
\* most MaxAttempts invocations and at most MaxAttempts - 1 waits.
C30_DoTerminates ==
    /\ <>Returned
    /\ [](calls <= cfg.MaxAttempts /\ Len(waits) <= cfg.MaxAttempts - 1)
    /\ [][Returned => (pc' = pc /\ ret' = ret /\ calls' = calls
                          /\ waits' = waits)]_vars

C30_Witness ==
    /\ pc = "Exhausted"
    /\ cfg.MaxAttempts = MaxAtt
    /\ calls = MaxAtt
    /\ Len(waits) = MaxAtt - 1
    /\ ret = ExhaustedErr(cfg, Last(outcomes))

====
